---------------------------- MODULE Spec2Model ----------------------------
(***************************************************************************)
(* Model of the GIF header decoder: the byte cursor GifBuffer              *)
(* (src/src/parser.rs) and the record parsers and Gif::decode              *)
(* (src/src/gif.rs).                                                       *)
(*                                                                         *)
(* A Rust call either returns a value or panics (unwinds; nothing in the   *)
(* repository catches a panic, so the process ends).  Every operation is   *)
(* an operator that yields a record                                        *)
(*     [ok, val, ptr, panic]                                               *)
(* with ok = TRUE and the returned value, or ok = FALSE and the place of   *)
(* the panic; ptr is the cursor's pointer when the call ended.             *)
(* Option<T> is the empty sequence (None) or a one-element sequence.       *)
(* Strings are sequences of bytes (their UTF-8 encoding).                  *)
(***************************************************************************)
EXTENDS Integers, Sequences, FiniteSets, TLC

VARIABLES
    buffer,             \* GifBuffer.buffer: the bytes of the file
    pointer,            \* GifBuffer.pointer
    pc,                 \* the next step of Gif::decode, or "api" for direct calls
    outcome,            \* "running", "returned" or "panicked"
    panic,              \* the place of the panic, "none" without one
    signature,          \* local of Gif::decode: Option<GifSignature>
    logical_screen_descriptor,  \* Option<LogicalScreenDescriptor>
    global_color_map,   \* Option<Option<GlobalColorMap>>: <<>> before the step ran
    descriptor_groups,  \* Vec<DescriptorGroup>
    gif,                \* the value Gif::decode returned: Option<Gif>
    last,               \* the last call: [op, arg, before, ok, val, after]
    steps               \* the calls Gif::decode made so far, in order

vars == <<buffer, pointer, pc, outcome, panic, signature,
          logical_screen_descriptor, global_color_map, descriptor_groups,
          gif, last, steps>>

-----------------------------------------------------------------------------
(* Machine integers and bit operations *)

Byte == 0..255

Pow2(n) == 2^n

\* x >> n
Shr(x, n) == x \div Pow2(n)

\* x % 2^k for 0 <= x < 2^31, the integers that occur here: from k = 31 on
\* there is nothing to cut off
Mod2(x, k) == IF k >= 31 THEN x ELSE x % Pow2(k)

\* x << n in a w-bit unsigned integer: the bits above bit w - 1 are lost
Shl(x, n, w) == Mod2(x, w - n) * Pow2(n)

RECURSIVE BitAnd(_, _)
\* x & y
BitAnd(x, y) ==
    IF x = 0 \/ y = 0 THEN 0
    ELSE (IF x % 2 = 1 /\ y % 2 = 1 THEN 1 ELSE 0) + 2 * BitAnd(x \div 2, y \div 2)

RECURSIVE BitOr(_, _)
\* x | y
BitOr(x, y) ==
    IF x = 0 THEN y
    ELSE IF y = 0 THEN x
    ELSE (IF x % 2 = 1 \/ y % 2 = 1 THEN 1 ELSE 0) + 2 * BitOr(x \div 2, y \div 2)

\* v as u8
AsU8(v) == v % 256

-----------------------------------------------------------------------------
(* Results of a call *)

None == <<>>
Some(x) == <<x>>

Ok(v, p) == [ok |-> TRUE, val |-> v, ptr |-> p, panic |-> "none"]
Panicked(site, p) == [ok |-> FALSE, val |-> None, ptr |-> p, panic |-> site]

\* buffer[i] and buffer[a..b] past the end: Rust's bounds check panics
IndexOutOfBounds == "index out of bounds"

-----------------------------------------------------------------------------
(* GifBuffer: src/src/parser.rs *)

\* self.buffer[self.pointer], then self.pointer += 1
read_u8(buf, p) ==
    IF p < Len(buf) THEN Ok(buf[p + 1], p + 1)
    ELSE Panicked(IndexOutOfBounds, p)

\* (self.read_u8() as u16) | ((self.read_u8() as u16) << 8)
read_le_u16(buf, p) ==
    LET lo == read_u8(buf, p) IN
    IF ~lo.ok THEN lo
    ELSE LET hi == read_u8(buf, lo.ptr) IN
         IF ~hi.ok THEN hi
         ELSE Ok(BitOr(lo.val, Shl(hi.val, 8, 16)), hi.ptr)

\* ((self.read_u8() as u16) << 7) | (self.read_u8() as u16)
read_u16(buf, p) ==
    LET a == read_u8(buf, p) IN
    IF ~a.ok THEN a
    ELSE LET b == read_u8(buf, a.ptr) IN
         IF ~b.ok THEN b
         ELSE Ok(BitOr(Shl(a.val, 7, 16), b.val), b.ptr)

\* ((self.read_u16() as u32) << 15) | (self.read_u16() as u32)
read_u32(buf, p) ==
    LET a == read_u16(buf, p) IN
    IF ~a.ok THEN a
    ELSE LET b == read_u16(buf, a.ptr) IN
         IF ~b.ok THEN b
         ELSE Ok(BitOr(Shl(a.val, 15, 32), b.val), b.ptr)

\* self.pointer += 1, with no look at the buffer
skip_u8(buf, p) == Ok(None, p + 1)

\* self.buffer[self.pointer], the pointer stays
peek_u8(buf, p) ==
    IF p < Len(buf) THEN Ok(buf[p + 1], p)
    ELSE Panicked(IndexOutOfBounds, p)

\* self.buffer[self.pointer..self.pointer + bytes].to_owned(), then pointer += bytes
read_slice(buf, p, bytes) ==
    IF p + bytes <= Len(buf) THEN Ok(SubSeq(buf, p + 1, p + bytes), p + bytes)
    ELSE Panicked(IndexOutOfBounds, p)

-----------------------------------------------------------------------------
(* Strings: String::from_utf8 and str::to_uppercase, as gif.rs uses them *)

InRange(s, i, lo, hi) == i <= Len(s) /\ s[i] >= lo /\ s[i] <= hi

RECURSIVE IsUtf8(_)
\* String::from_utf8(bytes).is_ok(): the well-formed UTF-8 byte sequences
IsUtf8(s) ==
    IF s = <<>> THEN TRUE
    ELSE LET b == s[1]
             n == Len(s)
             Cont(i) == InRange(s, i, 128, 191)
         IN  IF b < 128 THEN IsUtf8(Tail(s))
             ELSE IF b >= 194 /\ b <= 223
                  THEN Cont(2) /\ IsUtf8(SubSeq(s, 3, n))
             ELSE IF b = 224
                  THEN InRange(s, 2, 160, 191) /\ Cont(3) /\ IsUtf8(SubSeq(s, 4, n))
             ELSE IF (b >= 225 /\ b <= 236) \/ b = 238 \/ b = 239
                  THEN Cont(2) /\ Cont(3) /\ IsUtf8(SubSeq(s, 4, n))
             ELSE IF b = 237
                  THEN InRange(s, 2, 128, 159) /\ Cont(3) /\ IsUtf8(SubSeq(s, 4, n))
             ELSE IF b = 240
                  THEN InRange(s, 2, 144, 191) /\ Cont(3) /\ Cont(4)
                       /\ IsUtf8(SubSeq(s, 5, n))
             ELSE IF b >= 241 /\ b <= 243
                  THEN Cont(2) /\ Cont(3) /\ Cont(4) /\ IsUtf8(SubSeq(s, 5, n))
             ELSE IF b = 244
                  THEN InRange(s, 2, 128, 143) /\ Cont(3) /\ Cont(4)
                       /\ IsUtf8(SubSeq(s, 5, n))
             ELSE FALSE

\* a to_uppercase that changes nothing
to_uppercase_off(s) == s

RECURSIVE to_uppercase(_)
\* str::to_uppercase on well-formed UTF-8.  ASCII a..z go to A..Z.  Of the
\* other characters, those whose upper case is made of ASCII letters are
\* mapped as Unicode maps them (dotless i, long s, sharp s, the fi ligature);
\* the rest, whose upper case is never made of ASCII letters alone, are left
\* as they are: the only use of the result is its comparison with "GIF".
to_uppercase(s) ==
    IF s = <<>> THEN <<>>
    ELSE LET b == s[1]
             n == Len(s)
         IN  IF b < 128
             THEN <<(IF b >= 97 /\ b <= 122 THEN b - 32 ELSE b)>> \o to_uppercase(Tail(s))
             ELSE IF b < 224
             THEN (IF SubSeq(s, 1, 2) = <<196, 177>> THEN <<73>>
                   ELSE IF SubSeq(s, 1, 2) = <<197, 191>> THEN <<83>>
                   ELSE IF SubSeq(s, 1, 2) = <<195, 159>> THEN <<83, 83>>
                   ELSE SubSeq(s, 1, 2)) \o to_uppercase(SubSeq(s, 3, n))
             ELSE IF b < 240
             THEN (IF SubSeq(s, 1, 3) = <<239, 172, 129>> THEN <<70, 73>>
                   ELSE SubSeq(s, 1, 3)) \o to_uppercase(SubSeq(s, 4, n))
             ELSE SubSeq(s, 1, 4) \o to_uppercase(SubSeq(s, 5, n))

\* the string literals of gif.rs
StrGIF == <<71, 73, 70>>
Str89a == <<56, 57, 97>>
Str87a == <<56, 55, 97>>

-----------------------------------------------------------------------------
(* GifSignature and GifVersion: src/src/gif.rs *)

FromUtf8Magic == "from_utf8 magic"
AssertMagic == "assert magic"
FromUtf8Version == "from_utf8 version"
VersionNotRecognized == "version not recognized"
AssertImageSeparator == "assert image separator"

\* impl From<String> for GifVersion: None stands for the panic of the last arm
GifVersion_from(value) ==
    IF value = Str89a THEN Some("GIF89a")
    ELSE IF value = Str87a THEN Some("GIF87a")
    ELSE None

\* the magic compared in upper case but stored as it was read
GifSignature_parse_as_read(buf, p) ==
    LET m == read_slice(buf, p, 3) IN
    IF ~m.ok THEN m
    ELSE IF ~IsUtf8(m.val) THEN Panicked(FromUtf8Magic, m.ptr)
    ELSE IF to_uppercase(m.val) # StrGIF THEN Panicked(AssertMagic, m.ptr)
    ELSE LET v == read_slice(buf, m.ptr, 3) IN
         IF ~v.ok THEN v
         ELSE IF ~IsUtf8(v.val) THEN Panicked(FromUtf8Version, v.ptr)
         ELSE LET version == GifVersion_from(v.val) IN
              IF version = None THEN Panicked(VersionNotRecognized, v.ptr)
              ELSE Ok([magic |-> m.val, version |-> version[1]], v.ptr)

GifSignature_parse(buf, p) ==
    LET m == read_slice(buf, p, 3) IN
    IF ~m.ok THEN m
    ELSE IF ~IsUtf8(m.val) THEN Panicked(FromUtf8Magic, m.ptr)
    ELSE LET magic == to_uppercase(m.val) IN
         IF magic # StrGIF THEN Panicked(AssertMagic, m.ptr)
         ELSE LET v == read_slice(buf, m.ptr, 3) IN
              IF ~v.ok THEN v
              ELSE IF ~IsUtf8(v.val) THEN Panicked(FromUtf8Version, v.ptr)
              ELSE LET version == GifVersion_from(v.val) IN
                   IF version = None THEN Panicked(VersionNotRecognized, v.ptr)
                   ELSE Ok([magic |-> magic, version |-> version[1]], v.ptr)

-----------------------------------------------------------------------------
(* LSDPackedFields and LogicalScreenDescriptor *)

\* the bit split without the increments of the two numeric fields
LSDPackedFieldsOf_raw(m_u8) ==
    [global_color_table_flag |-> BitAnd(Shr(m_u8, 7), 1) = 1,
     color_resolution        |-> BitAnd(Shr(m_u8, 4), 7),
     sort_flag               |-> BitAnd(Shr(m_u8, 3), 1) = 1,
     global_color_table_size |-> BitAnd(m_u8, 7)]

\* the bit split of LSDPackedFields::parse
LSDPackedFieldsOf(m_u8) ==
    [global_color_table_flag |-> BitAnd(Shr(m_u8, 7), 1) = 1,
     color_resolution        |-> BitAnd(Shr(m_u8, 4), 7) + 1,
     sort_flag               |-> BitAnd(Shr(m_u8, 3), 1) = 1,
     global_color_table_size |-> BitAnd(m_u8, 7) + 1]

LSDPackedFields_parse(buf, p) ==
    LET m == read_u8(buf, p) IN
    IF ~m.ok THEN m ELSE Ok(LSDPackedFieldsOf(m.val), m.ptr)

LogicalScreenDescriptor_parse(buf, p) ==
    LET w == read_le_u16(buf, p) IN
    IF ~w.ok THEN w
    ELSE LET h == read_le_u16(buf, w.ptr) IN
    IF ~h.ok THEN h
    ELSE LET pf == LSDPackedFields_parse(buf, h.ptr) IN
    IF ~pf.ok THEN pf
    ELSE LET bg == read_u8(buf, pf.ptr) IN
    IF ~bg.ok THEN bg
    ELSE LET ar == read_u8(buf, bg.ptr) IN
    IF ~ar.ok THEN ar
    ELSE Ok([logical_screen_width   |-> w.val,
             logical_screen_height  |-> h.val,
             packed_fields          |-> pf.val,
             background_color_index |-> bg.val,
             pixel_aspect_ratio     |-> ar.val], ar.ptr)

-----------------------------------------------------------------------------
(* GlobalColorMap *)

\* the raw byte stored as it is (intensities[i] = buf.read_u8())
Rescale_raw(raw, pixel) == raw

\* a table of 2^pixel bytes, not of 2^pixel triplets
GcmSize_entries(pixel) == Pow2(pixel)

\* let size: usize = 3 * 2_usize.pow(pixel as u32)
GcmSize(pixel) == 3 * Pow2(pixel)

\* a division by zero: Rust panics
DivideByZero == "attempt to divide by zero"

\* raw as u32 * 255_u32
RescaleProduct(raw) == Mod2(raw * 255, 32)

\* the divisor taken from the raw 3-bit field, one less than the stored size
RescaleDivisor_field(pixel) == Shl(1, pixel - 1, 32) - 1

\* (1_u32 << pixel as u32) - 1_u32
RescaleDivisor(pixel) == Shl(1, pixel, 32) - 1

\* ((raw as u32 * 255_u32) / ((1_u32 << pixel as u32) - 1_u32)) as u8
Rescale(raw, pixel) == AsU8(RescaleProduct(raw) \div RescaleDivisor(pixel))

\* for i in 0..intensities.len() { intensities[i] = rescaled buf.read_u8() }:
\* iteration i reads the byte at p + i, so the loop fills every index when
\* size bytes are left, and otherwise panics in the read_u8 that finds the
\* pointer at the end of the buffer.  With a divisor of zero the first
\* iteration reads its byte and panics in the division
GcmLoop(buf, p, pixel, size) ==
    IF RescaleDivisor(pixel) = 0
    THEN (IF p < Len(buf) THEN Panicked(DivideByZero, p + 1)
          ELSE Panicked(IndexOutOfBounds, p))
    ELSE IF p + size <= Len(buf)
    THEN Ok([i \in 1..size |-> Rescale(read_u8(buf, p + i - 1).val, pixel)], p + size)
    ELSE Panicked(IndexOutOfBounds, IF p < Len(buf) THEN Len(buf) ELSE p)

GlobalColorMap_parse(buf, p, screen_descriptor) ==
    IF ~screen_descriptor.packed_fields.global_color_table_flag THEN Ok(None, p)
    ELSE LET pixel == screen_descriptor.packed_fields.global_color_table_size
             size == GcmSize(pixel)
             filled == GcmLoop(buf, p, pixel, size)
         IN  IF ~filled.ok THEN filled
             ELSE Ok(Some([intensities |-> filled.val, size |-> size]), filled.ptr)

-----------------------------------------------------------------------------
(* IDPackedFields, ImageDescriptor, LocalColorMap, RasterData, DescriptorGroup *)

\* the bit split of IDPackedFields::parse
IDPackedFieldsOf(m_u8) ==
    [local_color_table_flag |-> BitAnd(Shr(m_u8, 7), 1) = 1,
     interlace_flag         |-> BitAnd(Shr(m_u8, 6), 1) = 1,
     sort_flag              |-> BitAnd(Shr(m_u8, 5), 1) = 1,
     reserved               |-> BitAnd(Shr(m_u8, 4), 3),
     local_color_table_size |-> BitAnd(m_u8, 7) + 1]

IDPackedFields_parse(buf, p) ==
    LET m == read_u8(buf, p) IN
    IF ~m.ok THEN m ELSE Ok(IDPackedFieldsOf(m.val), m.ptr)

ImageSeparator == 44

\* the separator checked only after the whole record was read
ImageDescriptor_parse_late(buf, p) ==
    LET sep == read_u8(buf, p)
        body == read_slice(buf, sep.ptr, 9)
    IN  IF ~sep.ok THEN sep
        ELSE IF ~body.ok THEN body
        ELSE IF sep.val # ImageSeparator THEN Panicked(AssertImageSeparator, body.ptr)
        ELSE Ok([image_left    |-> BitOr(body.val[1], Shl(body.val[2], 8, 16)),
                 image_top     |-> BitOr(body.val[3], Shl(body.val[4], 8, 16)),
                 image_width   |-> BitOr(body.val[5], Shl(body.val[6], 8, 16)),
                 image_height  |-> BitOr(body.val[7], Shl(body.val[8], 8, 16)),
                 packed_fields |-> IDPackedFieldsOf(body.val[9])], body.ptr)

ImageDescriptor_parse(buf, p) ==
    LET sep == read_u8(buf, p) IN
    IF ~sep.ok THEN sep
    ELSE IF sep.val # ImageSeparator THEN Panicked(AssertImageSeparator, sep.ptr)
    ELSE LET l == read_le_u16(buf, sep.ptr) IN
    IF ~l.ok THEN l
    ELSE LET t == read_le_u16(buf, l.ptr) IN
    IF ~t.ok THEN t
    ELSE LET w == read_le_u16(buf, t.ptr) IN
    IF ~w.ok THEN w
    ELSE LET h == read_le_u16(buf, w.ptr) IN
    IF ~h.ok THEN h
    ELSE LET pf == IDPackedFields_parse(buf, h.ptr) IN
    IF ~pf.ok THEN pf
    ELSE Ok([image_left    |-> l.val,
             image_top     |-> t.val,
             image_width   |-> w.val,
             image_height  |-> h.val,
             packed_fields |-> pf.val], pf.ptr)

\* the unit structs LocalColorMap {} and RasterData {}
LocalColorMap == "LocalColorMap"
RasterData == "RasterData"

\* a local color map that takes a byte from the cursor when it is present
LocalColorMap_parse_reads(buf, p, image_descriptor) ==
    IF ~image_descriptor.packed_fields.local_color_table_flag THEN Ok(None, p)
    ELSE Ok(Some(LocalColorMap), p + 1)

LocalColorMap_parse(buf, p, image_descriptor) ==
    IF ~image_descriptor.packed_fields.local_color_table_flag THEN Ok(None, p)
    ELSE Ok(Some(LocalColorMap), p)

RasterData_parse(buf, p, image_descriptor) == Ok(RasterData, p)

DescriptorGroup_parse(buf, p) ==
    LET id == ImageDescriptor_parse(buf, p) IN
    IF ~id.ok THEN id
    ELSE LET lcm == LocalColorMap_parse(buf, id.ptr, id.val) IN
         LET rd == RasterData_parse(buf, lcm.ptr, id.val) IN
         Ok([image_descriptor |-> id.val,
             local_color_map  |-> lcm.val,
             raster_data      |-> rd.val], rd.ptr)

-----------------------------------------------------------------------------
(* The state machine *)

NoCall == [op |-> "none", arg |-> 0, before |-> 0, ok |-> TRUE, val |-> None,
           after |-> 0, panic |-> "none"]

CallOf(op, arg, r) ==
    [op |-> op, arg |-> arg, before |-> pointer, ok |-> r.ok, val |-> r.val,
     after |-> r.ptr, panic |-> r.panic]

\* GifBuffer::read leaves the file's bytes in the buffer and the pointer at 0
Constructed(bytes) ==
    /\ buffer = bytes
    /\ pointer = 0
    /\ outcome = "running"
    /\ panic = "none"
    /\ signature = None
    /\ logical_screen_descriptor = None
    /\ global_color_map = None
    /\ descriptor_groups = <<>>
    /\ gif = None
    /\ last = NoCall
    /\ steps = <<>>

\* the effect of a call on the cursor: the pointer moves to where the call
\* left it, and a panic ends the run
Effect(op, arg, r) ==
    /\ outcome = "running"
    /\ pointer' = r.ptr
    /\ last' = CallOf(op, arg, r)
    /\ outcome' = IF r.ok THEN "running" ELSE "panicked"
    /\ panic' = r.panic
    /\ UNCHANGED <<buffer, gif>>

-----------------------------------------------------------------------------
(* Gif::decode, one action per statement that calls a parser *)

DecodeSignature ==
    /\ pc = "signature"
    /\ LET r == GifSignature_parse(buffer, pointer) IN
       /\ Effect("GifSignature::parse", 0, r)
       /\ signature' = IF r.ok THEN Some(r.val) ELSE signature
       /\ pc' = IF r.ok THEN "screen" ELSE pc
       /\ steps' = Append(steps, CallOf("GifSignature::parse", 0, r))
    /\ UNCHANGED <<logical_screen_descriptor, global_color_map, descriptor_groups>>

DecodeScreenDescriptor ==
    /\ pc = "screen"
    /\ LET r == LogicalScreenDescriptor_parse(buffer, pointer) IN
       /\ Effect("LogicalScreenDescriptor::parse", 0, r)
       /\ logical_screen_descriptor' = IF r.ok THEN Some(r.val) ELSE logical_screen_descriptor
       /\ pc' = IF r.ok THEN "color" ELSE pc
       /\ steps' = Append(steps, CallOf("LogicalScreenDescriptor::parse", 0, r))
    /\ UNCHANGED <<signature, global_color_map, descriptor_groups>>

DecodeGlobalColorMap ==
    /\ pc = "color"
    /\ LET r == GlobalColorMap_parse(buffer, pointer, logical_screen_descriptor[1]) IN
       /\ Effect("GlobalColorMap::parse", 0, r)
       /\ global_color_map' = IF r.ok THEN Some(r.val) ELSE global_color_map
       /\ pc' = IF r.ok THEN "group" ELSE pc
       /\ steps' = Append(steps, CallOf("GlobalColorMap::parse", 0, r))
    /\ UNCHANGED <<signature, logical_screen_descriptor, descriptor_groups>>

\* DescriptorGroup::parse and descriptor_groups.push
DecodeDescriptorGroup ==
    /\ pc = "group"
    /\ LET r == DescriptorGroup_parse(buffer, pointer) IN
       /\ Effect("DescriptorGroup::parse", 0, r)
       /\ descriptor_groups' = IF r.ok THEN Append(descriptor_groups, r.val)
                               ELSE descriptor_groups
       /\ pc' = IF r.ok THEN "assemble" ELSE pc
       /\ steps' = Append(steps, CallOf("DescriptorGroup::parse", 0, r))
    /\ UNCHANGED <<signature, logical_screen_descriptor, global_color_map>>

\* the Gif { .. } expression that Gif::decode returns
DecodeReturn ==
    /\ pc = "assemble"
    /\ outcome = "running"
    /\ gif' = Some([signature                 |-> signature[1],
                    logical_screen_descriptor |-> logical_screen_descriptor[1],
                    global_color_map          |-> global_color_map[1],
                    descriptor_groups         |-> descriptor_groups])
    /\ outcome' = "returned"
    /\ pc' = "done"
    /\ UNCHANGED <<buffer, pointer, panic, signature, logical_screen_descriptor,
                   global_color_map, descriptor_groups, last, steps>>

-----------------------------------------------------------------------------
(* Input files of the decode runs *)

\* how many bytes a file may lack at its end, and how long a short file is
MaxCut == 12
MaxShort == 14

LE16(v) == <<v % 256, v \div 256>>

\* n bytes counting up from base
Table(n, base) == [i \in 1..n |-> (base + i - 1) % 256]

Take(s, n) == SubSeq(s, 1, IF n < Len(s) THEN n ELSE Len(s))

\* spellings of the magic: the eight cases of "GIF", and others
Magics ==
    { <<g, i, f>> : g \in {71, 103}, i \in {73, 105}, f \in {70, 102} }
    \cup { <<71, 73, 71>>, <<74, 73, 70>>, <<255, 73, 70>>, <<103, 196, 177>>,
           <<239, 172, 129>>, <<71, 73, 200>> }

Versions ==
    { Str87a, Str89a, <<56, 57, 65>>, <<56, 56, 97>>, <<57, 56, 97>>,
      <<56, 57, 255>>, <<195, 159, 97>> }

\* a file laid out as the decoder reads it: signature, screen descriptor with
\* the packed byte, a table of the size the packed byte declares when its
\* flag is set, an image descriptor after the separator, one more byte
Stream(sig, packed, base, sep, idpacked) ==
    sig \o LE16(258) \o LE16(5) \o <<packed, 3, 49>>
        \o (IF packed >= 128 THEN Table(3 * Pow2((packed % 8) + 1), base) ELSE <<>>)
        \o <<sep>> \o LE16(1) \o LE16(515) \o LE16(65535) \o LE16(4)
        \o <<idpacked, 59>>

ScreenPackedBytes == (0..7) \cup (128..135) \cup {119, 255}

\* files that differ in the signature only
SignatureFile ==
    \E m \in Magics, v \in Versions : Constructed(Stream(m \o v, 0, 0, 44, 0))

\* files with a good signature, whole or cut short by up to MaxCut bytes
BodyFile ==
    \E sig \in { StrGIF \o Str89a, <<103, 105, 102>> \o Str87a },
       packed \in ScreenPackedBytes,
       sep \in {44, 33, 59},
       idpacked \in {0, 200},
       d \in 0..MaxCut :
         LET s == Stream(sig, packed, 7, sep, idpacked) IN
         Constructed(Take(s, Len(s) - d))

\* the first bytes of a file, from none to MaxShort of them
ShortFile ==
    \E packed \in {0, 128}, n \in 0..MaxShort :
         Constructed(Take(Stream(StrGIF \o Str87a, packed, 7, 44, 0), n))

Init ==
    /\ pc = "signature"
    /\ (SignatureFile \/ BodyFile \/ ShortFile)

Next ==
    \/ DecodeSignature
    \/ DecodeScreenDescriptor
    \/ DecodeGlobalColorMap
    \/ DecodeDescriptorGroup
    \/ DecodeReturn

Spec == Init /\ [][Next]_vars

-----------------------------------------------------------------------------
(* Direct calls of the public operations on a constructed GifBuffer *)

NoDecode == UNCHANGED <<pc, signature, logical_screen_descriptor, global_color_map,
                        descriptor_groups, steps>>

\* longest cursor file, longest slice asked for, and how far skip_u8 is
\* followed past the end of the buffer
MaxLen == 4
MaxSlice == 3
MaxOver == 2

Call_read_u8 ==
    /\ pc = "api"
    /\ Effect("read_u8", 1, read_u8(buffer, pointer))
    /\ NoDecode

Call_read_le_u16 ==
    /\ pc = "api"
    /\ Effect("read_le_u16", 2, read_le_u16(buffer, pointer))
    /\ NoDecode

Call_read_u16 ==
    /\ pc = "api"
    /\ Effect("read_u16", 2, read_u16(buffer, pointer))
    /\ NoDecode

Call_read_u32 ==
    /\ pc = "api"
    /\ Effect("read_u32", 4, read_u32(buffer, pointer))
    /\ NoDecode

Call_read_slice ==
    /\ pc = "api"
    /\ \E bytes \in 0..MaxSlice :
         Effect("read_slice", bytes, read_slice(buffer, pointer, bytes))
    /\ NoDecode

Call_peek_u8 ==
    /\ pc = "api"
    /\ Effect("peek_u8", 1, peek_u8(buffer, pointer))
    /\ NoDecode

Call_skip_u8 ==
    /\ pc = "api"
    /\ pointer < Len(buffer) + MaxOver
    /\ Effect("skip_u8", 1, skip_u8(buffer, pointer))
    /\ NoDecode

Call_LSDPackedFields_parse ==
    /\ pc = "api"
    /\ Effect("LSDPackedFields::parse", 0, LSDPackedFields_parse(buffer, pointer))
    /\ NoDecode

Call_IDPackedFields_parse ==
    /\ pc = "api"
    /\ Effect("IDPackedFields::parse", 0, IDPackedFields_parse(buffer, pointer))
    /\ NoDecode

Call_ImageDescriptor_parse ==
    /\ pc = "api"
    /\ Effect("ImageDescriptor::parse", 0, ImageDescriptor_parse(buffer, pointer))
    /\ NoDecode

Call_LogicalScreenDescriptor_parse ==
    /\ pc = "api"
    /\ logical_screen_descriptor = None
    /\ LET r == LogicalScreenDescriptor_parse(buffer, pointer) IN
       /\ Effect("LogicalScreenDescriptor::parse", 0, r)
       /\ logical_screen_descriptor' = IF r.ok THEN Some(r.val) ELSE None
    /\ UNCHANGED <<pc, signature, global_color_map, descriptor_groups, steps>>

Call_GlobalColorMap_parse ==
    /\ pc = "api"
    /\ logical_screen_descriptor # None
    /\ global_color_map = None
    /\ LET r == GlobalColorMap_parse(buffer, pointer, logical_screen_descriptor[1]) IN
       /\ Effect("GlobalColorMap::parse", 0, r)
       /\ global_color_map' = IF r.ok THEN Some(r.val) ELSE None
    /\ UNCHANGED <<pc, signature, logical_screen_descriptor, descriptor_groups, steps>>

(* the cursor alone, over every short file of a few byte values *)

CursorBytes == {1, 128, 255}

CursorInit ==
    /\ pc = "api"
    /\ \E n \in 0..MaxLen : \E bytes \in [1..n -> CursorBytes] : Constructed(bytes)

CursorNext ==
    \/ Call_read_u8
    \/ Call_read_le_u16
    \/ Call_read_u16
    \/ Call_read_u32
    \/ Call_read_slice
    \/ Call_peek_u8
    \/ Call_skip_u8

CursorSpec == CursorInit /\ [][CursorNext]_vars

(* the packed-field and image-descriptor parsers, over every first byte *)

RecordBody == LE16(1) \o LE16(515) \o LE16(65535) \o LE16(4) \o <<200>>

RecordInit ==
    /\ pc = "api"
    /\ \E b \in Byte, n \in {0, 1, 9, 10, 20} :
         Constructed(Take(<<b>> \o RecordBody \o <<b>> \o RecordBody, n))

RecordNext ==
    \/ Call_skip_u8
    \/ Call_LSDPackedFields_parse
    \/ Call_IDPackedFields_parse
    \/ Call_ImageDescriptor_parse

RecordSpec == RecordInit /\ [][RecordNext]_vars

(* screen descriptor and global color map, over every size and raw byte *)

\* table contents start at 6 * k for k up to MaxBase
MaxBase == 42

ColorInit ==
    /\ pc = "api"
    /\ \E packed \in Byte, k \in 0..MaxBase, missing \in {0, 1} :
         /\ (packed % 128 > 7 => k = 0)
         /\ Constructed(LE16(258) \o LE16(5) \o <<packed, 3, 49>>
                     \o Table(3 * Pow2((packed % 8) + 1) - missing, 6 * k))

ColorNext ==
    \/ Call_LogicalScreenDescriptor_parse
    \/ Call_GlobalColorMap_parse

ColorSpec == ColorInit /\ [][ColorNext]_vars

-----------------------------------------------------------------------------
(* The properties *)

\* the error kind a failure stands for, by the place where the code fails
ErrorKind(site) ==
    IF site = IndexOutOfBounds THEN "BufferUnderrun"
    ELSE IF site \in {FromUtf8Magic, AssertMagic} THEN "InvalidSignature"
    ELSE IF site \in {FromUtf8Version, VersionNotRecognized} THEN "UnsupportedVersion"
    ELSE IF site = AssertImageSeparator THEN "InvalidImageSeparator"
    ELSE "none"

\* the bytes left for a call that started at position p
Remaining(p) == Len(buffer) - p

(* C1: every decode ends by returning a Gif or by returning one error value  *)
(* to its caller; no step panics.  Gif::decode has no error value to return: *)
(* a run that does not return a Gif stays "running" or ends "panicked", so   *)
(* the claim is that no run panics.                                          *)
C1_DecodeNeverAborts ==
    pc # "api" => /\ outcome # "panicked"
                  /\ (gif # None => outcome = "returned")

(* C2, as stated: on a file of six bytes or more the signature is accepted   *)
(* exactly when the first six bytes are "GIF87a" or "GIF89a", with the       *)
(* matching version, and every other prefix fails as InvalidSignature or     *)
(* UnsupportedVersion.                                                       *)
C2_OnlyUpperCaseAccepted ==
    (pc # "api" /\ Len(steps) >= 1 /\ Len(buffer) >= 6) =>
        LET c == steps[1]
            prefix == SubSeq(buffer, 1, 6)
        IN  /\ c.ok <=> prefix \in {StrGIF \o Str87a, StrGIF \o Str89a}
            /\ c.ok => c.val.version = (IF prefix = StrGIF \o Str87a THEN "GIF87a"
                                        ELSE "GIF89a")
            /\ ~c.ok => ErrorKind(c.panic) \in {"InvalidSignature", "UnsupportedVersion"}

\* an upper or lower case spelling of "GIF"
IsGifSpelling(m) == m[1] \in {71, 103} /\ m[2] \in {73, 105} /\ m[3] \in {70, 102}

(* C2, amended: on a file of six bytes or more the signature is accepted     *)
(* exactly when the first three bytes spell "GIF" in any mix of upper and    *)
(* lower case and the next three are exactly "87a" or "89a", with the        *)
(* matching version; every other prefix fails at the magic check             *)
(* (InvalidSignature) or at the version match (UnsupportedVersion), with six *)
(* bytes read on success.                                                    *)
C2_SignatureAccepted ==
    (pc # "api" /\ Len(steps) >= 1 /\ Len(buffer) >= 6) =>
        LET c == steps[1]
            m == SubSeq(buffer, 1, 3)
            v == SubSeq(buffer, 4, 6)
        IN  /\ c.ok <=> (IsGifSpelling(m) /\ v \in {Str87a, Str89a})
            /\ c.ok => /\ c.val.version = (IF v = Str87a THEN "GIF87a" ELSE "GIF89a")
                       /\ c.after = 6
            /\ ~c.ok => ErrorKind(c.panic) =
                           (IF IsGifSpelling(m) THEN "UnsupportedVersion"
                            ELSE "InvalidSignature")

\* the signature "gif87a" was accepted
C2_Witness ==
    /\ pc # "api"
    /\ Len(steps) >= 1
    /\ steps[1].ok
    /\ Len(buffer) >= 6
    /\ SubSeq(buffer, 1, 6) = <<103, 105, 102>> \o Str87a
    /\ steps[1].val.version = "GIF87a"

(* C3: a read_u8, read_le_u16 or read_slice(n) that finds the bytes it needs *)
(* returns and moves the pointer by exactly that many; one that finds fewer  *)
(* fails with an error the caller receives, without a panic.                 *)
C3_ReadsFailWithoutPanic ==
    (pc = "api" /\ last.op \in {"read_u8", "read_le_u16", "read_slice"}) =>
        IF Remaining(last.before) >= last.arg
        THEN last.ok /\ last.after = last.before + last.arg
        ELSE outcome # "panicked"

(* C4: an image descriptor parse that starts at p on a byte other than 0x2C  *)
(* fails as InvalidImageSeparator with the pointer at p + 1; one that starts *)
(* on 0x2C with nine more bytes left succeeds (and has read the ten bytes).  *)
C4_ImageSeparator ==
    (pc = "api" /\ last.op = "ImageDescriptor::parse" /\ Remaining(last.before) >= 1) =>
        LET p == last.before
            sep == buffer[p + 1]
        IN  /\ sep # 44 => /\ ~last.ok
                           /\ ErrorKind(last.panic) = "InvalidImageSeparator"
                           /\ last.after = p + 1
                           /\ pointer = p + 1
            /\ (sep = 44 /\ Remaining(p) >= 10) => /\ last.ok
                                                   /\ pointer = p + 10

\* a parse that started past position 0 on the byte 0x21 has failed
C4_Witness ==
    /\ pc = "api"
    /\ last.op = "ImageDescriptor::parse"
    /\ last.before > 0
    /\ Remaining(last.before) >= 10
    /\ buffer[last.before + 1] = 33
    /\ ~last.ok
    /\ pointer = last.before + 1

\* the bit split a call made: the fields that parser gives for the byte b
FieldsOf(op, b) ==
    IF op = "LSDPackedFields::parse" THEN LSDPackedFieldsOf(b) ELSE IDPackedFieldsOf(b)

(* C5: for both packed-field parsers the byte can be rebuilt from the fields *)
(* it was split into: no other byte gives the same fields.                   *)
C5_PackedFieldsInjective ==
    (pc = "api" /\ last.ok
       /\ last.op \in {"LSDPackedFields::parse", "IDPackedFields::parse"}) =>
        \A b \in Byte : FieldsOf(last.op, b) = last.val => b = buffer[last.before + 1]

\* bit i of the byte b
Bit(b, i) == (b \div (2^i)) % 2

(* C6: the fields of the screen descriptor's packed byte b are: flag = bit 7, *)
(* color resolution = bits 6..4 plus one, sort flag = bit 3, size exponent = *)
(* bits 2..0 plus one; both numbers lie in 1..8 and one byte is read.        *)
C6_ScreenPackedFields ==
    (pc = "api" /\ last.op = "LSDPackedFields::parse" /\ Remaining(last.before) >= 1) =>
        LET b == buffer[last.before + 1]
            f == last.val
        IN  /\ last.ok
            /\ f.global_color_table_flag = (Bit(b, 7) = 1)
            /\ f.color_resolution = 4 * Bit(b, 6) + 2 * Bit(b, 5) + Bit(b, 4) + 1
            /\ f.sort_flag = (Bit(b, 3) = 1)
            /\ f.global_color_table_size = 4 * Bit(b, 2) + 2 * Bit(b, 1) + Bit(b, 0) + 1
            /\ f.color_resolution \in 1..8
            /\ f.global_color_table_size \in 1..8
            /\ pointer = last.before + 1

\* the byte 0xB5 was split: flag set, resolution 4, sort flag clear, size 6
C6_Witness ==
    /\ pc = "api"
    /\ last.op = "LSDPackedFields::parse"
    /\ last.ok
    /\ buffer[last.before + 1] = 181
    /\ last.val.global_color_table_flag
    /\ last.val.color_resolution = 4
    /\ ~last.val.sort_flag
    /\ last.val.global_color_table_size = 6

\* the screen descriptor's packed byte of a decode run, at offset 10 of the file
ScreenFlag == buffer[11] >= 128
ScreenExponent == (buffer[11] % 8) + 1
TableBytes == 3 * (2^ScreenExponent)

(* C7: in a decode, the global color map step gives a table exactly when the *)
(* flag is set.  With the flag set and 3 * 2^e bytes left it gives a table   *)
(* of 3 * 2^e entries, with that declared size, and the pointer moves by     *)
(* 3 * 2^e (by 6 for the packed byte 0x80); with the flag clear it gives no  *)
(* table and the pointer does not move.                                      *)
C7_GlobalColorMapSize ==
    (pc # "api" /\ Len(steps) >= 3) =>
        LET c == steps[3] IN
        /\ c.ok => ((c.val # None) <=> ScreenFlag)
        /\ (ScreenFlag /\ Remaining(c.before) >= TableBytes) =>
               /\ c.ok
               /\ Len(c.val[1].intensities) = TableBytes
               /\ c.val[1].size = TableBytes
               /\ c.after = c.before + TableBytes
               /\ (buffer[11] = 128 => c.after = c.before + 6)
        /\ ~ScreenFlag => (c.ok /\ c.val = None /\ c.after = c.before)

\* a decode read the table of 768 bytes that the exponent 8 declares
C7_Witness ==
    /\ pc # "api"
    /\ Len(steps) >= 3
    /\ steps[3].ok
    /\ ScreenFlag
    /\ ScreenExponent = 8
    /\ steps[3].after = steps[3].before + 768
    /\ Len(steps[3].val[1].intensities) = 768

\* the size exponent of the screen descriptor that a direct call parsed
ParsedExponent == logical_screen_descriptor[1].packed_fields.global_color_table_size

\* a global color map call returned a table
TableParsed ==
    /\ pc = "api"
    /\ last.op = "GlobalColorMap::parse"
    /\ last.ok
    /\ last.val # None

(* C8, as stated: entry i of the table is floor(r * 255 / (2^e - 1)) for the *)
(* raw byte r at index i of the table's bytes.                               *)
C8_EntryIsQuotient ==
    TableParsed =>
        \A i \in 1..Len(last.val[1].intensities) :
            last.val[1].intensities[i] =
                (buffer[last.before + i] * 255) \div ((2^ParsedExponent) - 1)

(* C8, amended: entry i of the table is floor(r * 255 / (2^e - 1)) reduced   *)
(* modulo 256 (the low eight bits of the quotient), for the raw byte r at    *)
(* index i of the table's bytes, in input order.                             *)
C8_EntryIsQuotientMod256 ==
    TableParsed =>
        \A i \in 1..Len(last.val[1].intensities) :
            last.val[1].intensities[i] =
                ((buffer[last.before + i] * 255) \div ((2^ParsedExponent) - 1)) % 256

\* a table was parsed in which a quotient did not fit a byte: raw byte 200
\* with exponent 3 gives 7285, stored as 117
C8_Witness ==
    /\ TableParsed
    /\ ParsedExponent = 3
    /\ \E i \in 1..Len(last.val[1].intensities) :
          /\ buffer[last.before + i] = 200
          /\ last.val[1].intensities[i] = 117

(* C9: after any sequence of cursor calls, failed ones included, the pointer *)
(* lies between 0 and the length of the buffer.                              *)
C9_PointerInBuffer ==
    pc = "api" => (0 <= pointer /\ pointer <= Len(buffer))

(* C10: a decode that returns ran signature, screen descriptor, global color *)
(* map and descriptor group once each, in this order, each starting where    *)
(* the one before ended; they moved the pointer by 6, 7, G and 10 bytes with *)
(* G = 3 * 2^e when the flag is set and 0 otherwise, so it ends at 23 + G,   *)
(* and the Gif holds one descriptor group.  In no run does a step move the   *)
(* pointer back.                                                             *)
C10_DecodeOrderAndAdvance ==
    pc # "api" =>
        /\ \A i \in 1..Len(steps) : steps[i].after >= steps[i].before
        /\ outcome = "returned" =>
             LET G == IF ScreenFlag THEN TableBytes ELSE 0 IN
             /\ [i \in 1..Len(steps) |-> steps[i].op] =
                    <<"GifSignature::parse", "LogicalScreenDescriptor::parse",
                      "GlobalColorMap::parse", "DescriptorGroup::parse">>
             /\ \A i \in 1..4 : steps[i].ok
             /\ steps[1].before = 0
             /\ \A i \in 1..3 : steps[i + 1].before = steps[i].after
             /\ [i \in 1..4 |-> steps[i].after - steps[i].before] = <<6, 7, G, 10>>
             /\ pointer = 23 + G
             /\ Len(gif[1].descriptor_groups) = 1
             /\ Len(descriptor_groups) = 1

\* a decode returned after a global color map and a descriptor group whose
\* local color table flag is set
C10_Witness ==
    /\ pc # "api"
    /\ outcome = "returned"
    /\ ScreenFlag
    /\ ScreenExponent = 2
    /\ pointer = 35
    /\ gif[1].descriptor_groups[1].local_color_map # None

(* C11: each of the eight upper and lower case spellings of "GIF", followed  *)
(* by exactly "87a" or "89a", is accepted and the magic stored is "GIF" in   *)
(* upper case; a version in another case, such as "89A", is rejected; and    *)
(* every signature a decode holds has the magic "GIF" and came from a        *)
(* version spelled exactly.                                                  *)
C11_MagicNormalized ==
    (pc # "api" /\ Len(steps) >= 1 /\ Len(buffer) >= 6) =>
        LET c == steps[1]
            m == SubSeq(buffer, 1, 3)
            v == SubSeq(buffer, 4, 6)
        IN  /\ (IsGifSpelling(m) /\ v \in {Str87a, Str89a}) =>
                   (c.ok /\ c.val.magic = <<71, 73, 70>>)
            /\ v \in {<<56, 57, 65>>, <<56, 55, 65>>} => ~c.ok
            /\ c.ok => v \in {Str87a, Str89a}
            /\ signature # None => (c.ok /\ signature[1].magic = <<71, 73, 70>>)
            /\ gif # None => gif[1].signature.magic = <<71, 73, 70>>

\* the signature "gIf89a" was accepted and its magic stored as "GIF"
C11_Witness ==
    /\ pc # "api"
    /\ Len(steps) >= 1
    /\ Len(buffer) >= 6
    /\ SubSeq(buffer, 1, 6) = <<103, 73, 102>> \o Str89a
    /\ steps[1].ok
    /\ signature # None
    /\ signature[1].magic = <<71, 73, 70>>
    /\ signature[1].version = "GIF89a"

\* x is a value of a 32-bit unsigned integer
FitsU32(x) == x >= 0 /\ x \div 65536 < 65536

(* C12: for every packed byte of a screen descriptor with the flag set, the  *)
(* divisor 2^e - 1 that the global color map call uses for its entries, with *)
(* e the size the screen descriptor holds for that byte, is at least 1, the  *)
(* call does not end in a division by zero, and the product raw * 255 of     *)
(* every byte of the table region is a 32-bit unsigned value, not wrapped.   *)
C12_RescaleDefined ==
    (pc = "api" /\ last.op = "GlobalColorMap::parse" /\ buffer[5] >= 128) =>
        LET pixel == ParsedExponent IN
        /\ pixel = (buffer[5] % 8) + 1
        /\ RescaleDivisor(pixel) >= 1
        /\ RescaleDivisor(pixel) = (2^pixel) - 1
        /\ last.panic # DivideByZero
        /\ \A i \in (last.before + 1)..Len(buffer) :
              /\ FitsU32(buffer[i] * 255)
              /\ RescaleProduct(buffer[i]) = buffer[i] * 255

\* the call ran for the packed byte 0xF8, whose size field 0 gives the least
\* divisor, 1, and returned a table
C12_Witness ==
    /\ pc = "api"
    /\ last.op = "GlobalColorMap::parse"
    /\ buffer[5] = 248
    /\ ParsedExponent = 1
    /\ RescaleDivisor(ParsedExponent) = 1
    /\ last.ok
    /\ Len(last.val[1].intensities) = 6

=============================================================================
